---- MODULE Spec2Model ----
(***************************************************************************)
(* Model of the motchi backend's real-time hub (api/main.go): the /ws      *)
(* handler, its heartbeat goroutine, the connection registry and the pet   *)
(* balance update, over a small SQLite state (tables users and pets).      *)
(*                                                                         *)
(* One connection attempt is one slot c in Conns.  pc[c] is the position   *)
(* of the goroutine running websocketHandler for that attempt; every       *)
(* database statement, every registry critical section and every write on  *)
(* a connection is one atomic step, so that the steps of different         *)
(* goroutines interleave exactly at the points where the code touches      *)
(* shared state.                                                           *)
(***************************************************************************)
EXTENDS Integers, Sequences, FiniteSets, TLC

\* ---------------------------------------------------------------- bounds
MaxConns  == 2         \* connection attempts in one run
MaxReq    == 1         \* inbound messages read in one run of Spec
RaceReq   == 2         \* inbound messages read in one run of SpecRace
LockReq   == 1         \* inbound messages read in one run of SpecLock
MaxMissed == 2         \* heartbeat periods counted without a pong
MaxCalls  == 4         \* calls made on the client-side state in one run
IntBits   == 5         \* width of the machine integer (scaled down)

\* ------------------------------------------------------------- constants
NULL == 0              \* sql.NullInt64{Valid: false}; absent map entry

Modulus == 2 ^ IntBits
MinInt  == 0 - (2 ^ (IntBits - 1))
MaxInt  == (2 ^ (IntBits - 1)) - 1
Absent  == MinInt - 1  \* a JSON field that the message does not carry

Conns == 1 .. MaxConns

\* The goroutines of the hub: the handler of each attempt ("h") and the
\* sendPingMessages goroutine it starts ("b").
Units == {"h", "b"} \X Conns
Users == {1, 2, 3, 4}
Pets  == {1, 2}

InitBalances == {10}
Amounts      == {MinInt, 6, MaxInt}
ClientPetIds == {1, 2}

\* Bearer tokens: valid is the outcome of ValidationBearerToken, uid is
\* token.GetUserID() (NULL for a token without a user id).
Tokens == {[valid |-> FALSE, uid |-> 1], [valid |-> TRUE, uid |-> NULL]}
          \cup {[valid |-> TRUE, uid |-> u] : u \in Users}

VARIABLES
    users,        \* table users: id -> [pet_id, SO]
    pets,         \* table pets:  id -> [main_owner, owner2, money]
    connections,  \* registry: user id -> connection (NULL when absent)
    pc,           \* position of the handler goroutine of each attempt
    userID,       \* the handler's local userID
    httpStatus,   \* status of the HTTP answer to the attempt
    closed,       \* conn.Close() was called on the connection
    client,       \* the remote end: "none", "alive", "silent", "gone"
    hb,           \* a sendPingMessages goroutine started by this handler
    tok,          \* the bearer token the attempt presented
    missed,       \* pings written to the connection and not acknowledged
    msg,          \* the message being processed: [kind, pet_id, amount]
    loc,          \* handler locals: [petIDToUse, currentMoney, newMoney, other]
    sent,         \* log of the writes made on each connection
    rcvd,         \* the messages read on each connection, as decoded, in order
    mu,           \* connectionsMu: the goroutines that hold it
    hbpc,         \* position of the sendPingMessages goroutine of each attempt
    wtgt,         \* the connection each goroutine is in the middle of a write on
    resp,         \* the last answer of /create_pet or /add_co_owner: <<status, body>>
    local         \* the browser's localStorage and the last call made on it

vars == <<users, pets, connections, pc, userID, httpStatus, closed, client,
          hb, tok, missed, msg, loc, sent, rcvd, mu, hbpc, wtgt, resp, local>>

\* The state of the lock and of the writes in progress, which only the
\* fine-grained steps of SpecLock look at, and the answer of the ownership
\* endpoints, which only the steps of SpecOwn set, and the client-side
\* storage, which only the steps of SpecClient touch.
auxVars == <<mu, hbpc, wtgt, resp, local>>

dbVars   == <<users, pets, tok>>
connVars == <<closed, client, hb, missed>>

\* ------------------------------------------------------------ operators

\* Go's int arithmetic wraps around.
Wrap(x) == ((x - MinInt) % Modulus) + MinInt

Min(a, b) == IF a < b THEN a ELSE b

SetMin(S) == CHOOSE x \in S : \A y \in S : x <= y

\* The value of health, hunger and happiness that the INSERT of
\* /create_pet writes; nothing else writes the gauges.
FullGauge == 100

\* A row of pets: the owners, the balance and the three gauges.
Pet(m, o, b) ==
    [main_owner |-> m, owner2 |-> o, money |-> b,
     health |-> FullGauge, hunger |-> FullGauge, happiness |-> FullGauge]

\* Numbers of the client are counted in units of 1/Scale, so that an
\* amount: number that is not whole can be passed; W(n) is the whole
\* number n.
Scale == 2
W(n) == n * Scale

\* parseInt of the decimal string that toString wrote for v: the digits
\* before the point, that is v truncated toward zero.
ParseInt(v) ==
    IF v >= 0 THEN (v \div Scale) * Scale ELSE 0 - (((0 - v) \div Scale) * Scale)

\* The keys of localStorage that state.tsx keeps numbers under.
Keys == {"money", "happiness", "hunger", "health"}

\* localStorage before anything was stored: has is the set of keys for
\* which getItem does not return null, val the number stored as a string
\* under each key, ret the last value spendMoney returned, call the last
\* call made and n the number of calls.
EmptyStorage ==
    [has |-> {}, val |-> [k \in Keys |-> 0], ret |-> FALSE,
     call |-> <<"none", 0>>, n |-> 0]

NoMsg == [kind |-> "none", pet_id |-> NULL, amount |-> 0]
NoLoc == [petIDToUse |-> NULL, currentMoney |-> 0, newMoney |-> 0, other |-> NULL]

\* validateUserForeignKeys: nil exactly when pet_id and SO are both set.
validateUserForeignKeys(u) == users[u].pet_id # NULL /\ users[u].SO # NULL

\* The server-side derivation of the pet id: the caller's users.pet_id,
\* else the pet whose owner2 is the caller, else none.
PetIDFor(u) ==
    IF users[u].pet_id # NULL THEN users[u].pet_id
    ELSE IF \E p \in Pets : pets[p].owner2 = u
         THEN SetMin({p \in Pets : pets[p].owner2 = u})
         ELSE NULL

\* A lookup that answers with the caller.
getOtherOwnerSelf(p, u) == u

\* SELECT CASE WHEN main_owner = ? THEN owner2 ELSE main_owner END
getOtherOwner(p, u) ==
    IF pets[p].main_owner = u THEN pets[p].owner2 ELSE pets[p].main_owner

\* A write on connection x returns nil.
WriteOK(x) == ~closed[x] /\ client[x] # "gone"

Entry(k, st, why, nm, pid, amt, ok) ==
    [kind |-> k, status |-> st, reason |-> why, newMoney |-> nm,
     pet_id |-> pid, amount |-> amt, ok |-> ok]

\* conn.WriteJSON(...) of a reply on connection x.
Reply(x, k, st, why, nm) ==
    [sent EXCEPT ![x] = Append(@, Entry(k, st, why, nm, Absent, Absent, WriteOK(x)))]

\* json.Unmarshal(message, &updateData): the fields of PetMoneyUpdate; a
\* message without them leaves the zero values.
Decode(k, pid, amt) ==
    IF k = "update" THEN [kind |-> k, pet_id |-> pid, amount |-> amt]
    ELSE [kind |-> k, pet_id |-> 0, amount |-> 0]

\* A table pets without the constraint.
MoneyCheckNone(m) == TRUE

\* The CHECK(money >= 0) constraint of table pets.
MoneyCheck(m) == m >= 0

\* A push that carries the new balance of the reply instead.
PushEntryBalance(c, x) ==
    Entry("push", "success", "none", loc[c].newMoney, Absent, Absent, WriteOK(x))

\* The annotated message pushed to the other owner: the fields of the
\* request, pet_id set to the server-derived id.
PushEntry(c, x) ==
    Entry("push", "none", "none", Absent, msg[c].pet_id,
          IF msg[c].kind = "update" THEN msg[c].amount ELSE Absent, WriteOK(x))

\* Messages read so far on all connections.
NumRead == LET RECURSIVE Sum(_)
               Sum(n) == IF n = 0 THEN 0 ELSE Len(rcvd[n]) + Sum(n - 1)
           IN  Sum(MaxConns)

\* ----------------------------------------------------------------- Init
Init ==
    /\ \E b \in InitBalances :
          /\ users = [u \in Users |->
                        IF u = 1 THEN [pet_id |-> 1, SO |-> 2]
                        ELSE IF u = 2 THEN [pet_id |-> 1, SO |-> 1]
                        ELSE IF u = 3 THEN [pet_id |-> 2, SO |-> 1]
                        ELSE [pet_id |-> NULL, SO |-> NULL]]
          /\ pets = [p \in Pets |->
                        IF p = 1 THEN Pet(1, 2, b)
                        ELSE Pet(3, NULL, b)]
    /\ connections = [u \in Users |-> NULL]
    /\ pc = [c \in Conns |-> "idle"]
    /\ userID = [c \in Conns |-> NULL]
    /\ httpStatus = [c \in Conns |-> 0]
    /\ closed = [c \in Conns |-> FALSE]
    /\ client = [c \in Conns |-> "none"]
    /\ hb = [c \in Conns |-> FALSE]
    /\ tok = [c \in Conns |-> [valid |-> FALSE, uid |-> NULL]]
    /\ missed = [c \in Conns |-> 0]
    /\ msg = [c \in Conns |-> NoMsg]
    /\ loc = [c \in Conns |-> NoLoc]
    /\ sent = [c \in Conns |-> <<>>]
    /\ rcvd = [c \in Conns |-> <<>>]
    /\ mu = {}
    /\ hbpc = [c \in Conns |-> "off"]
    /\ wtgt = [u \in Units |-> NULL]
    /\ resp = <<0, "">>
    /\ local = EmptyStorage

\* -------------------------------------------------- connection attempt

\* A handler that does not look at the outcome of the validation.
TokenAcceptedUnchecked(t) == t.uid # NULL

\* Lines 168-179: the token passes ValidationBearerToken and carries a
\* user id.
TokenAccepted(t) == t.valid /\ t.uid # NULL

\* websocketHandler up to the upgrade: token validation, the user id of
\* the token (always the decimal form of a users.id, so strconv.Atoi
\* succeeds), validateUserForeignKeys, upgrader.Upgrade.  ws tells whether
\* the request is a WebSocket handshake that the upgrader accepts.
Authenticate(c, t, ws) ==
    /\ pc[c] = "idle"
    /\ \A d \in Conns : d < c => pc[d] # "idle"
    /\ IF ~TokenAccepted(t)
       THEN /\ httpStatus' = [httpStatus EXCEPT ![c] = 401]
            /\ pc' = [pc EXCEPT ![c] = "rejected"]
            /\ UNCHANGED <<userID, client>>
       ELSE IF ~validateUserForeignKeys(t.uid)
       THEN /\ httpStatus' = [httpStatus EXCEPT ![c] = 403]
            /\ pc' = [pc EXCEPT ![c] = "rejected"]
            /\ userID' = [userID EXCEPT ![c] = t.uid]
            /\ UNCHANGED client
       ELSE IF ~ws
       THEN /\ httpStatus' = [httpStatus EXCEPT ![c] = 400]
            /\ pc' = [pc EXCEPT ![c] = "rejected"]
            /\ userID' = [userID EXCEPT ![c] = t.uid]
            /\ UNCHANGED client
       ELSE /\ httpStatus' = [httpStatus EXCEPT ![c] = 101]
            /\ pc' = [pc EXCEPT ![c] = "upgraded"]
            /\ userID' = [userID EXCEPT ![c] = t.uid]
            /\ client' = [client EXCEPT ![c] = "alive"]
    /\ tok' = [tok EXCEPT ![c] = t]
    /\ UNCHANGED <<users, pets, connections, closed, hb, missed, msg, loc, sent, rcvd>>
    /\ UNCHANGED auxVars

\* connections[userID] = conn under connectionsMu, then the pong handler
\* and go sendPingMessages(userID).
RegisterEntry(c) == [connections EXCEPT ![userID[c]] = c]

Register(c) ==
    /\ pc[c] = "upgraded"
    /\ connections' = RegisterEntry(c)
    /\ hb' = [hb EXCEPT ![c] = TRUE]
    /\ pc' = [pc EXCEPT ![c] = "read"]
    /\ UNCHANGED <<dbVars, userID, httpStatus, closed, client, missed, msg, loc, sent, rcvd>>
    /\ UNCHANGED auxVars

\* ------------------------------------------------------------ read loop

\* conn.ReadMessage() can return a message: the remote end is up, the
\* connection is open, and the run has messages left.
CanRead(c, budget) ==
    /\ pc[c] = "read" /\ client[c] = "alive" /\ ~closed[c]
    /\ NumRead < budget

\* conn.ReadMessage() returns a message whose JSON has pet_id and amount.
RecvUpdate(c, pid, amt, budget) ==
    /\ CanRead(c, budget)
    /\ msg' = [msg EXCEPT ![c] = Decode("update", pid, amt)]
    /\ rcvd' = [rcvd EXCEPT ![c] = Append(@, Decode("update", pid, amt))]
    /\ pc' = [pc EXCEPT ![c] = "resolve"]
    /\ UNCHANGED <<dbVars, connections, userID, httpStatus, connVars, loc, sent>>
    /\ UNCHANGED auxVars

\* A JSON object whose type is not get_data and that has no pet_id or
\* amount: it unmarshals into PetMoneyUpdate with the zero values.
RecvUnknown(c, budget) ==
    /\ CanRead(c, budget)
    /\ msg' = [msg EXCEPT ![c] = Decode("unknown", NULL, 0)]
    /\ rcvd' = [rcvd EXCEPT ![c] = Append(@, Decode("unknown", NULL, 0))]
    /\ pc' = [pc EXCEPT ![c] = "resolve"]
    /\ UNCHANGED <<dbVars, connections, userID, httpStatus, connVars, loc, sent>>
    /\ UNCHANGED auxVars

\* A message whose type is get_data.
RecvGetData(c, budget) ==
    /\ CanRead(c, budget)
    /\ msg' = [msg EXCEPT ![c] = Decode("get_data", NULL, 0)]
    /\ rcvd' = [rcvd EXCEPT ![c] = Append(@, Decode("get_data", NULL, 0))]
    /\ pc' = [pc EXCEPT ![c] = "gd_resolve"]
    /\ UNCHANGED <<dbVars, connections, userID, httpStatus, connVars, loc, sent>>
    /\ UNCHANGED auxVars

\* A message that json.Unmarshal rejects: the loop goes on to the next read.
RecvMalformed(c, budget) ==
    /\ CanRead(c, budget)
    /\ rcvd' = [rcvd EXCEPT ![c] = Append(@, Decode("malformed", NULL, 0))]
    /\ UNCHANGED <<dbVars, connections, pc, userID, httpStatus, connVars, msg, loc, sent>>
    /\ UNCHANGED auxVars

\* conn.ReadMessage() returns an error: the remote end is gone or the
\* connection was closed; the loop breaks and the deferred calls run.
ReadError(c) ==
    /\ pc[c] = "read"
    /\ client[c] = "gone" \/ closed[c]
    /\ pc' = [pc EXCEPT ![c] = "cleanup"]
    /\ UNCHANGED <<dbVars, connections, userID, httpStatus, connVars, msg, loc, sent, rcvd>>
    /\ UNCHANGED auxVars

\* The deferred cleanup: under connectionsMu, whatever connection is
\* registered for userID is closed and its entry deleted; then the
\* deferred conn.Close() of the handler's own connection.
\* A cleanup that leaves the registry as it is.
CleanupRegistryKeep(c) == connections

CleanupRegistry(c) ==
    [connections EXCEPT ![userID[c]] = NULL]

\* A cleanup that closes every connection.
CleanupClosedAll(c) == [x \in Conns |-> TRUE]

CleanupClosed(c) ==
    [x \in Conns |-> closed[x] \/ x = c \/ x = connections[userID[c]]]

Cleanup(c) ==
    /\ pc[c] = "cleanup"
    /\ connections' = CleanupRegistry(c)
    /\ closed' = CleanupClosed(c)
    /\ pc' = [pc EXCEPT ![c] = "done"]
    /\ UNCHANGED <<dbVars, userID, httpStatus, client, hb, missed, msg, loc, sent, rcvd>>
    /\ UNCHANGED auxVars

\* ------------------------------------------------------ mutation request

\* A handler that leaves the loop when an iteration ends.
EndIterationBreak(c) ==
    /\ pc' = [pc EXCEPT ![c] = "cleanup"]
    /\ msg' = [msg EXCEPT ![c] = NoMsg]
    /\ loc' = [loc EXCEPT ![c] = NoLoc]

\* The end of one iteration of the read loop: the locals of the iteration
\* go out of scope.
EndIteration(c) ==
    /\ pc' = [pc EXCEPT ![c] = "read"]
    /\ msg' = [msg EXCEPT ![c] = NoMsg]
    /\ loc' = [loc EXCEPT ![c] = NoLoc]

\* The id the client put in the message, left in place.
PetIDFromMessage(c) == msg[c].pet_id

\* updateData.PetID = petIDToUse: the id the rest of the iteration uses.
PetIDToUse(c) == PetIDFor(userID[c])

\* Lines 331-371: derive the pet id from the caller's identity and
\* override the one in the message.
ResolvePet(c) ==
    /\ pc[c] = "resolve"
    /\ IF PetIDFor(userID[c]) = NULL
       THEN /\ sent' = Reply(c, "ResultResponse", "fail", "no_pet", Absent)
            /\ EndIteration(c)
       ELSE /\ loc' = [loc EXCEPT ![c].petIDToUse = PetIDFor(userID[c])]
            /\ msg' = [msg EXCEPT ![c].pet_id = PetIDToUse(c)]
            /\ pc' = [pc EXCEPT ![c] = "select"]
            /\ UNCHANGED sent
    /\ UNCHANGED <<dbVars, connections, userID, httpStatus, connVars, rcvd>>
    /\ UNCHANGED auxVars

\* validateAndUpdatePetMoney, SELECT money FROM pets WHERE id = ?
SelectMoney(c) ==
    /\ pc[c] = "select"
    /\ loc' = [loc EXCEPT ![c].currentMoney = pets[msg[c].pet_id].money]
    /\ pc' = [pc EXCEPT ![c] = "check"]
    /\ UNCHANGED <<dbVars, connections, userID, httpStatus, connVars, msg, sent, rcvd>>
    /\ UNCHANGED auxVars

\* A comparison that lets every amount through.
InsufficientNever(amount, currentMoney) == FALSE

\* if amount > currentMoney { return false, currentMoney, nil }
Insufficient(amount, currentMoney) == amount > currentMoney

\* validateAndUpdatePetMoney returned valid = false: the failure reply.
ReplyInsufficient(c) ==
    /\ pc[c] = "check"
    /\ Insufficient(msg[c].amount, loc[c].currentMoney)
    /\ sent' = Reply(c, "ResultResponse", "fail", "insufficient", Absent)
    /\ EndIteration(c)
    /\ UNCHANGED <<dbVars, connections, userID, httpStatus, connVars, rcvd>>
    /\ UNCHANGED auxVars

\* newMoney := currentMoney - amount
NewMoney(currentMoney, amount) == Wrap(currentMoney - amount)

\* An UPDATE without the WHERE clause: it sets the balance of every pet.
UpdateMoneyEveryPet(c) ==
    /\ pc[c] = "check"
    /\ ~Insufficient(msg[c].amount, loc[c].currentMoney)
    /\ LET nm == NewMoney(loc[c].currentMoney, msg[c].amount)
       IN  IF MoneyCheck(nm)
           THEN /\ pets' = [p \in Pets |-> [pets[p] EXCEPT !.money = nm]]
                /\ loc' = [loc EXCEPT ![c].newMoney = nm]
                /\ pc' = [pc EXCEPT ![c] = "reply_ok"]
           ELSE /\ pc' = [pc EXCEPT ![c] = "reply_err"]
                /\ UNCHANGED <<pets, loc>>
    /\ UNCHANGED <<users, tok, connections, userID, httpStatus, connVars, msg, sent, rcvd>>
    /\ UNCHANGED auxVars

\* UPDATE pets SET money = ? WHERE id = ?  The statement fails when the
\* CHECK constraint rejects the value.
UpdateMoney(c) ==
    /\ pc[c] = "check"
    /\ ~Insufficient(msg[c].amount, loc[c].currentMoney)
    /\ LET nm == NewMoney(loc[c].currentMoney, msg[c].amount)
       IN  IF MoneyCheck(nm)
           THEN /\ pets' = [pets EXCEPT ![msg[c].pet_id].money = nm]
                /\ loc' = [loc EXCEPT ![c].newMoney = nm]
                /\ pc' = [pc EXCEPT ![c] = "reply_ok"]
           ELSE /\ pc' = [pc EXCEPT ![c] = "reply_err"]
                /\ UNCHANGED <<pets, loc>>
    /\ UNCHANGED <<users, tok, connections, userID, httpStatus, connVars, msg, sent, rcvd>>
    /\ UNCHANGED auxVars

\* err != nil: the generic failure reply.
ReplyStoreError(c) ==
    /\ pc[c] = "reply_err"
    /\ sent' = Reply(c, "ResultResponse", "fail", "server_error", Absent)
    /\ EndIteration(c)
    /\ UNCHANGED <<dbVars, connections, userID, httpStatus, connVars, rcvd>>
    /\ UNCHANGED auxVars

\* A handler that goes on to the push without writing the reply.
ReplySuccessLate(c) ==
    /\ pc[c] = "reply_ok"
    /\ pc' = [pc EXCEPT ![c] = "other"]
    /\ UNCHANGED <<dbVars, connections, userID, httpStatus, connVars, msg, loc, sent, rcvd>>
    /\ UNCHANGED auxVars

\* The success reply with newMoney.
ReplySuccess(c) ==
    /\ pc[c] = "reply_ok"
    /\ sent' = Reply(c, "ResultResponse", "success", "none", loc[c].newMoney)
    /\ pc' = [pc EXCEPT ![c] = "other"]
    /\ UNCHANGED <<dbVars, connections, userID, httpStatus, connVars, msg, loc, rcvd>>
    /\ UNCHANGED auxVars

\* otherOwnerID, err := getOtherOwner(updateData.PetID, userID)
GetOtherOwner(c) ==
    /\ pc[c] = "other"
    /\ LET o == getOtherOwner(msg[c].pet_id, userID[c])
       IN  IF o = NULL
           THEN EndIteration(c)
           ELSE /\ loc' = [loc EXCEPT ![c].other = o]
                /\ pc' = [pc EXCEPT ![c] = "push"]
                /\ UNCHANGED msg
    /\ UNCHANGED <<dbVars, connections, userID, httpStatus, connVars, sent, rcvd>>
    /\ UNCHANGED auxVars

\* A broadcast: any registered connection other than the requester's.
PushTargetAny(c) ==
    LET S == {x \in Conns \ {c} : userID[x] # NULL /\ connections[userID[x]] = x}
    IN  IF S = {} THEN NULL ELSE SetMin(S)

\* otherConn, ok := connections[int(otherOwnerID.Int64)]
PushTarget(c) == connections[loc[c].other]

\* A push that relays the pet_id the client sent.
PushToPeerClientId(c) ==
    /\ pc[c] = "push"
    /\ LET x == PushTarget(c)
       IN  IF x # NULL
           THEN sent' = [sent EXCEPT ![x] = Append(@,
                           [PushEntry(c, x) EXCEPT !.pet_id = rcvd[c][Len(rcvd[c])].pet_id])]
           ELSE UNCHANGED sent
    /\ EndIteration(c)
    /\ UNCHANGED <<dbVars, connections, userID, httpStatus, connVars, rcvd>>
    /\ UNCHANGED auxVars

\* Under connectionsMu: if the other owner has a registered connection,
\* write the annotated message on it.
PushToPeer(c) ==
    /\ pc[c] = "push"
    /\ LET x == PushTarget(c)
       IN  IF x # NULL
           THEN sent' = [sent EXCEPT ![x] = Append(@, PushEntry(c, x))]
           ELSE UNCHANGED sent
    /\ EndIteration(c)
    /\ UNCHANGED <<dbVars, connections, userID, httpStatus, connVars, rcvd>>
    /\ UNCHANGED auxVars

\* ------------------------------------------------------------ state query

\* Lines 237-273: derive the pet id; a caller without a pet gets a failure.
GetDataResolve(c) ==
    /\ pc[c] = "gd_resolve"
    /\ IF PetIDFor(userID[c]) = NULL
       THEN /\ sent' = Reply(c, "PetDataResponse", "fail", "no_pet", Absent)
            /\ EndIteration(c)
       ELSE /\ loc' = [loc EXCEPT ![c].petIDToUse = PetIDFor(userID[c])]
            /\ pc' = [pc EXCEPT ![c] = "gd_query"]
            /\ UNCHANGED <<sent, msg>>
    /\ UNCHANGED <<dbVars, connections, userID, httpStatus, connVars, rcvd>>
    /\ UNCHANGED auxVars

\* Lines 285-302: the query of the pet row fails in the store; the failure
\* result is written and the loop goes on.
GetDataStoreError(c) ==
    /\ pc[c] = "gd_query"
    /\ sent' = Reply(c, "PetDataResponse", "fail", "server_error", Absent)
    /\ EndIteration(c)
    /\ UNCHANGED <<dbVars, connections, userID, httpStatus, connVars, rcvd>>
    /\ UNCHANGED auxVars

\* A query that charges the pet for the snapshot.
GetDataReplyCharging(c) ==
    /\ pc[c] = "gd_query"
    /\ sent' = [sent EXCEPT ![c] = Append(@,
                  Entry("PetDataResponse", "success", "none",
                        pets[loc[c].petIDToUse].money, loc[c].petIDToUse,
                        Absent, WriteOK(c)))]
    /\ pets' = [pets EXCEPT ![loc[c].petIDToUse].money = 0]
    /\ EndIteration(c)
    /\ UNCHANGED <<users, tok, connections, userID, httpStatus, connVars, rcvd>>
    /\ UNCHANGED auxVars

\* Lines 275-323: read the pet row and write the snapshot.
GetDataReply(c) ==
    /\ pc[c] = "gd_query"
    /\ sent' = [sent EXCEPT ![c] = Append(@,
                  Entry("PetDataResponse", "success", "none",
                        pets[loc[c].petIDToUse].money, loc[c].petIDToUse,
                        Absent, WriteOK(c)))]
    /\ EndIteration(c)
    /\ UNCHANGED <<dbVars, connections, userID, httpStatus, connVars, rcvd>>
    /\ UNCHANGED auxVars

\* -------------------------------------------------------------- heartbeat

\* A heartbeat that closes the connection on a failed ping and leaves its
\* entry in the registry.
TickKeepEntry(c) ==
    /\ hb[c]
    /\ LET x == connections[userID[c]]
       IN  IF x = NULL
           THEN UNCHANGED <<closed, missed>>
           ELSE IF WriteOK(x)
           THEN /\ missed' = [missed EXCEPT ![x] =
                                 IF client[x] = "alive" THEN 0
                                 ELSE Min(@ + 1, MaxMissed)]
                /\ UNCHANGED closed
           ELSE /\ closed' = [closed EXCEPT ![x] = TRUE]
                /\ UNCHANGED missed
    /\ UNCHANGED <<dbVars, connections, pc, userID, httpStatus, client, hb, msg, loc, sent, rcvd>>
    /\ UNCHANGED auxVars

\* One tick of the sendPingMessages goroutine started by handler c: under
\* connectionsMu, ping whatever connection is registered for userID; on a
\* write error close it and delete the entry.  A live client answers with
\* a pong, which the pong handler only logs.
Tick(c) ==
    /\ hb[c]
    /\ LET x == connections[userID[c]]
       IN  IF x = NULL
           THEN UNCHANGED <<connections, closed, missed>>
           ELSE IF WriteOK(x)
           THEN /\ missed' = [missed EXCEPT ![x] =
                                 IF client[x] = "alive" THEN 0
                                 ELSE Min(@ + 1, MaxMissed)]
                /\ UNCHANGED <<connections, closed>>
           ELSE /\ closed' = [closed EXCEPT ![x] = TRUE]
                /\ connections' = [connections EXCEPT ![userID[c]] = NULL]
                /\ UNCHANGED missed
    /\ UNCHANGED <<dbVars, pc, userID, httpStatus, client, hb, msg, loc, sent, rcvd>>
    /\ UNCHANGED auxVars

\* ------------------------------------------------------------ environment

\* The remote end stops answering (no pong, no message); the transport
\* stays up.
ClientSilent(c) ==
    /\ client[c] = "alive"
    /\ client' = [client EXCEPT ![c] = "silent"]
    /\ UNCHANGED <<dbVars, connections, pc, userID, httpStatus, closed, hb, missed, msg, loc, sent, rcvd>>
    /\ UNCHANGED auxVars

\* The remote end closes the connection or the transport breaks.
ClientGone(c) ==
    /\ client[c] \in {"alive", "silent"}
    /\ client' = [client EXCEPT ![c] = "gone"]
    /\ UNCHANGED <<dbVars, connections, pc, userID, httpStatus, closed, hb, missed, msg, loc, sent, rcvd>>
    /\ UNCHANGED auxVars

\* ------------------------------------------------------------------- Next

\* The steps of one handler that process a message it has read.
Process(c) ==
    \/ ResolvePet(c)
    \/ SelectMoney(c)
    \/ ReplyInsufficient(c)
    \/ UpdateMoney(c)
    \/ ReplyStoreError(c)
    \/ ReplySuccess(c)
    \/ GetOtherOwner(c)
    \/ PushToPeer(c)
    \/ GetDataResolve(c)
    \/ GetDataReply(c)
    \/ GetDataStoreError(c)

\* The hub: connection attempts, the read loop, the heartbeat, and remote
\* ends that go away.
Next ==
    \/ \E c \in Conns, t \in Tokens, ws \in BOOLEAN : Authenticate(c, t, ws)
    \/ \E c \in Conns : Register(c)
    \/ \E c \in Conns, pid \in ClientPetIds, amt \in Amounts : RecvUpdate(c, pid, amt, MaxReq)
    \/ \E c \in Conns : RecvUnknown(c, MaxReq)
    \/ \E c \in Conns : RecvGetData(c, MaxReq)
    \/ \E c \in Conns : RecvMalformed(c, MaxReq)
    \/ \E c \in Conns : Process(c)
    \/ \E c \in Conns : ReadError(c)
    \/ \E c \in Conns : Cleanup(c)
    \/ \E c \in Conns : Tick(c)
    \/ \E c \in Conns : ClientGone(c)

Spec == Init /\ [][Next]_vars

\* Concurrent requests on connections that stay up.
NextRace ==
    \/ \E c \in Conns, t \in Tokens, ws \in BOOLEAN : Authenticate(c, t, ws)
    \/ \E c \in Conns : Register(c)
    \/ \E c \in Conns, pid \in ClientPetIds, amt \in Amounts : RecvUpdate(c, pid, amt, RaceReq)
    \/ \E c \in Conns : RecvUnknown(c, RaceReq)
    \/ \E c \in Conns : RecvGetData(c, RaceReq)
    \/ \E c \in Conns : RecvMalformed(c, RaceReq)
    \/ \E c \in Conns : Process(c)

SpecRace == Init /\ [][NextRace]_vars

\* The life of connections without requests, with remote ends that stop
\* answering.  The ticker fires for ever and a goroutine that can take a
\* step takes it; nothing is assumed of the remote ends.
NextLive ==
    \/ \E c \in Conns, t \in Tokens, ws \in BOOLEAN : Authenticate(c, t, ws)
    \/ \E c \in Conns : Register(c)
    \/ \E c \in Conns : ReadError(c)
    \/ \E c \in Conns : Cleanup(c)
    \/ \E c \in Conns : Tick(c)
    \/ \E c \in Conns : ClientSilent(c)
    \/ \E c \in Conns : ClientGone(c)

SpecLive ==
    /\ Init /\ [][NextLive]_vars
    /\ \A c \in Conns : WF_vars(Register(c)) /\ WF_vars(ReadError(c))
                        /\ WF_vars(Cleanup(c)) /\ WF_vars(Tick(c))

\* ------------------------------------------- locks and writes, step by step
\* The same handler and heartbeat with every acquisition of connectionsMu,
\* every beginning and every end of a write on a connection as a step of
\* its own.  wtgt[u] is the connection that goroutine u is writing on, from
\* the call of WriteJSON / WriteMessage until it returns.

H(c) == <<"h", c>>
B(c) == <<"b", c>>

\* The identities that connect and the amounts they send in SpecLock.
LockUsers   == {1, 2}
LockAmounts == {1}

\* Everything the steps below leave alone.
lockRest == <<users, pets, tok, httpStatus, msg, loc, rcvd, resp, local>>

\* A registration that does not take the lock.
RegLockNone(c) ==
    /\ pc[c] = "upgraded"
    /\ pc' = [pc EXCEPT ![c] = "reg_in"]
    /\ UNCHANGED <<lockRest, connections, userID, closed, client, hb, missed, sent, mu, hbpc, wtgt>>

\* Line 198: connectionsMu.Lock() before the registration.
RegLock(c) ==
    /\ pc[c] = "upgraded"
    /\ mu = {}
    /\ mu' = {H(c)}
    /\ pc' = [pc EXCEPT ![c] = "reg_in"]
    /\ UNCHANGED <<lockRest, connections, userID, closed, client, hb, missed, sent, hbpc, wtgt>>

\* Lines 199-216: connections[userID] = conn, Unlock, the deferred cleanup
\* and the pong handler are set up, go sendPingMessages(userID).
RegStore(c) ==
    /\ pc[c] = "reg_in"
    /\ connections' = RegisterEntry(c)
    /\ mu' = mu \ {H(c)}
    /\ hb' = [hb EXCEPT ![c] = TRUE]
    /\ hbpc' = [hbpc EXCEPT ![c] = "wait"]
    /\ pc' = [pc EXCEPT ![c] = "read"]
    /\ UNCHANGED <<lockRest, userID, closed, client, missed, sent, wtgt>>

\* Line 393: conn.WriteJSON of the success reply is called (no lock held).
ReplyBegin(c) ==
    /\ pc[c] = "reply_ok"
    /\ wtgt' = [wtgt EXCEPT ![H(c)] = c]
    /\ pc' = [pc EXCEPT ![c] = "reply_write"]
    /\ UNCHANGED <<lockRest, connections, userID, closed, client, hb, missed, sent, mu, hbpc>>

\* Lines 393-397: the write of the reply returns.
ReplyEnd(c) ==
    /\ pc[c] = "reply_write"
    /\ sent' = Reply(c, "ResultResponse", "success", "none", loc[c].newMoney)
    /\ wtgt' = [wtgt EXCEPT ![H(c)] = NULL]
    /\ pc' = [pc EXCEPT ![c] = "other"]
    /\ UNCHANGED <<lockRest, connections, userID, closed, client, hb, missed, mu, hbpc>>

\* Line 401: connectionsMu.Lock() before the lookup of the other owner.
PushLock(c) ==
    /\ pc[c] = "push"
    /\ mu = {}
    /\ mu' = {H(c)}
    /\ pc' = [pc EXCEPT ![c] = "push_in"]
    /\ UNCHANGED <<lockRest, connections, userID, closed, client, hb, missed, sent, hbpc, wtgt>>

\* Lines 402-408: the lookup under the lock; on a hit otherConn.WriteJSON
\* is called with the lock held, on a miss line 412 unlocks.
PushLookup(c) ==
    /\ pc[c] = "push_in"
    /\ IF PushTarget(c) = NULL
       THEN /\ mu' = mu \ {H(c)}
            /\ EndIteration(c)
            /\ UNCHANGED wtgt
       ELSE /\ wtgt' = [wtgt EXCEPT ![H(c)] = PushTarget(c)]
            /\ pc' = [pc EXCEPT ![c] = "push_write"]
            /\ UNCHANGED <<mu, msg, loc>>
    /\ UNCHANGED <<users, pets, tok, httpStatus, rcvd, resp, local, connections, userID, closed, client, hb, missed, sent, hbpc>>

\* Lines 408-412: the write of the push returns (an error is only logged),
\* then connectionsMu.Unlock().
PushEnd(c) ==
    /\ pc[c] = "push_write"
    /\ sent' = [sent EXCEPT ![wtgt[H(c)]] = Append(@, PushEntry(c, wtgt[H(c)]))]
    /\ wtgt' = [wtgt EXCEPT ![H(c)] = NULL]
    /\ mu' = mu \ {H(c)}
    /\ EndIteration(c)
    /\ UNCHANGED <<users, pets, tok, httpStatus, rcvd, resp, local, connections, userID, closed, client, hb, missed, hbpc>>

\* Line 203: connectionsMu.Lock() in the deferred cleanup.
CleanLock(c) ==
    /\ pc[c] = "cleanup"
    /\ mu = {}
    /\ mu' = {H(c)}
    /\ pc' = [pc EXCEPT ![c] = "clean_in"]
    /\ UNCHANGED <<lockRest, connections, userID, closed, client, hb, missed, sent, hbpc, wtgt>>

\* Lines 204-208 and 196: close and delete whatever is registered for
\* userID, Unlock, then the deferred conn.Close().
CleanStore(c) ==
    /\ pc[c] = "clean_in"
    /\ connections' = CleanupRegistry(c)
    /\ closed' = CleanupClosed(c)
    /\ mu' = mu \ {H(c)}
    /\ pc' = [pc EXCEPT ![c] = "done"]
    /\ UNCHANGED <<lockRest, userID, client, hb, missed, sent, hbpc, wtgt>>

\* Lines 147-148: the ticker fires and the goroutine takes connectionsMu.
PingLock(c) ==
    /\ hbpc[c] = "wait"
    /\ mu = {}
    /\ mu' = {B(c)}
    /\ hbpc' = [hbpc EXCEPT ![c] = "ping_in"]
    /\ UNCHANGED <<lockRest, connections, pc, userID, closed, client, hb, missed, sent, wtgt>>

\* Lines 149-150: the lookup under the lock; on a hit conn.WriteMessage is
\* called with the lock held, on a miss line 156 unlocks.
PingLookup(c) ==
    /\ hbpc[c] = "ping_in"
    /\ IF connections[userID[c]] = NULL
       THEN /\ mu' = mu \ {B(c)}
            /\ hbpc' = [hbpc EXCEPT ![c] = "wait"]
            /\ UNCHANGED wtgt
       ELSE /\ wtgt' = [wtgt EXCEPT ![B(c)] = connections[userID[c]]]
            /\ hbpc' = [hbpc EXCEPT ![c] = "ping_write"]
            /\ UNCHANGED mu
    /\ UNCHANGED <<lockRest, connections, pc, userID, closed, client, hb, missed, sent>>

\* Lines 150-156: the write of the ping returns; on an error the connection
\* is closed and its entry deleted; then connectionsMu.Unlock().
PingEnd(c) ==
    /\ hbpc[c] = "ping_write"
    /\ LET x == wtgt[B(c)]
       IN  IF WriteOK(x)
           THEN /\ missed' = [missed EXCEPT ![x] =
                                 IF client[x] = "alive" THEN 0
                                 ELSE Min(@ + 1, MaxMissed)]
                /\ UNCHANGED <<connections, closed>>
           ELSE /\ closed' = [closed EXCEPT ![x] = TRUE]
                /\ connections' = [connections EXCEPT ![userID[c]] = NULL]
                /\ UNCHANGED missed
    /\ wtgt' = [wtgt EXCEPT ![B(c)] = NULL]
    /\ mu' = mu \ {B(c)}
    /\ hbpc' = [hbpc EXCEPT ![c] = "wait"]
    /\ UNCHANGED <<lockRest, pc, userID, client, hb, sent>>

\* Owners of pet 1 that connect, send mutations that succeed, and go away,
\* with the heartbeat of every connection.
NextLock ==
    \/ \E c \in Conns, u \in LockUsers :
          Authenticate(c, [valid |-> TRUE, uid |-> u], TRUE)
    \/ \E c \in Conns : RegLock(c)
    \/ \E c \in Conns : RegStore(c)
    \/ \E c \in Conns, pid \in ClientPetIds, amt \in LockAmounts : RecvUpdate(c, pid, amt, LockReq)
    \/ \E c \in Conns : ResolvePet(c)
    \/ \E c \in Conns : SelectMoney(c)
    \/ \E c \in Conns : UpdateMoney(c)
    \/ \E c \in Conns : ReplyBegin(c)
    \/ \E c \in Conns : ReplyEnd(c)
    \/ \E c \in Conns : GetOtherOwner(c)
    \/ \E c \in Conns : PushLock(c)
    \/ \E c \in Conns : PushLookup(c)
    \/ \E c \in Conns : PushEnd(c)
    \/ \E c \in Conns : ReadError(c)
    \/ \E c \in Conns : CleanLock(c)
    \/ \E c \in Conns : CleanStore(c)
    \/ \E c \in Conns : PingLock(c)
    \/ \E c \in Conns : PingLookup(c)
    \/ \E c \in Conns : PingEnd(c)
    \/ \E c \in Conns : ClientGone(c)

SpecLock == Init /\ [][NextLock]_vars

\* ------------------------------------------------------------- ownership
\* The endpoints that write the ownership columns, next to the hub: pets
\* are created by /create_pet and their owner2 is set by /add_co_owner.

\* A row of pets that has not been inserted yet.
AbsentPet == Pet(NULL, NULL, 0)

\* The ids of the rows not inserted yet; AUTOINCREMENT hands them out in
\* increasing order.
FreePets == {p \in Pets : pets[p].main_owner = NULL}

\* The database before pet 2 is created: user 3 has no pet yet.
InitOwn ==
    /\ \E b \in InitBalances :
          /\ users = [u \in Users |->
                        IF u = 1 THEN [pet_id |-> 1, SO |-> 2]
                        ELSE IF u = 2 THEN [pet_id |-> 1, SO |-> 1]
                        ELSE IF u = 3 THEN [pet_id |-> NULL, SO |-> 1]
                        ELSE [pet_id |-> NULL, SO |-> NULL]]
          /\ pets = [p \in Pets |->
                        IF p = 1 THEN Pet(1, 2, b)
                        ELSE AbsentPet]
    /\ connections = [u \in Users |-> NULL]
    /\ pc = [c \in Conns |-> "idle"]
    /\ userID = [c \in Conns |-> NULL]
    /\ httpStatus = [c \in Conns |-> 0]
    /\ closed = [c \in Conns |-> FALSE]
    /\ client = [c \in Conns |-> "none"]
    /\ hb = [c \in Conns |-> FALSE]
    /\ tok = [c \in Conns |-> [valid |-> FALSE, uid |-> NULL]]
    /\ missed = [c \in Conns |-> 0]
    /\ msg = [c \in Conns |-> NoMsg]
    /\ loc = [c \in Conns |-> NoLoc]
    /\ sent = [c \in Conns |-> <<>>]
    /\ rcvd = [c \in Conns |-> <<>>]
    /\ mu = {}
    /\ hbpc = [c \in Conns |-> "off"]
    /\ wtgt = [u \in Units |-> NULL]
    /\ resp = <<0, "">>
    /\ local = EmptyStorage

ownRest == <<connections, pc, userID, httpStatus, closed, client, hb, tok,
             missed, msg, loc, sent, rcvd, mu, hbpc, wtgt, local>>

\* createPetHandler: for a token with a user id, in one transaction,
\* INSERT INTO pets (main_owner, owner2, money, ...) VALUES (?, NULL, 0, ...)
\* and UPDATE users SET pet_id = ? WHERE id = ?; answer 201.
CreatePet(t) ==
    /\ IF ~TokenAccepted(t)
       THEN /\ resp' = <<401, "Invalid token">>
            /\ UNCHANGED <<users, pets>>
       ELSE /\ FreePets # {}
            /\ LET p == SetMin(FreePets)
               IN  /\ pets' = [pets EXCEPT ![p] = Pet(t.uid, NULL, 0)]
                   /\ users' = [users EXCEPT ![t.uid].pet_id = p]
            /\ resp' = <<201, "created">>
    /\ UNCHANGED ownRest

\* A handler that takes the first pet that still lacks an owner2, whoever
\* owns it.
CallerPetFirstFree(t) ==
    IF \E p \in Pets : pets[p].main_owner # NULL /\ pets[p].owner2 = NULL
    THEN SetMin({p \in Pets : pets[p].main_owner # NULL /\ pets[p].owner2 = NULL})
    ELSE users[t.uid].pet_id

\* SELECT pet_id FROM users WHERE id = ? with the user id of the token: the
\* pet /add_co_owner works on; the request body carries only a username.
CallerPet(t) == users[t.uid].pet_id

\* rowsAffected == 0: the answer of /add_co_owner when the UPDATE matched
\* no row.
AlreadyHasCoOwner == <<400, "Pet already has a co-owner or not found">>

\* An UPDATE without the condition on owner2.
AddCoOwnerReassign(t, target) ==
    /\ IF ~TokenAccepted(t)
       THEN /\ resp' = <<401, "Invalid token">>
            /\ UNCHANGED pets
       ELSE IF CallerPet(t) = NULL
       THEN /\ resp' = <<400, "Caller has no pet to add a co-owner to">>
            /\ UNCHANGED pets
       ELSE IF target = NULL
       THEN /\ resp' = <<404, "Target user not found">>
            /\ UNCHANGED pets
       ELSE /\ pets' = [pets EXCEPT ![CallerPet(t)].owner2 = target]
            /\ resp' = <<200, "Co-owner added successfully">>
    /\ UNCHANGED users
    /\ UNCHANGED ownRest

\* addCoOwnerHandler: the caller's users.pet_id (400 without one), the
\* target by username (404 when there is none, target = NULL), then
\* UPDATE pets SET owner2 = ? WHERE id = ? AND owner2 IS NULL; no row
\* affected is answered 400, one row 200.
AddCoOwner(t, target) ==
    /\ IF ~TokenAccepted(t)
       THEN /\ resp' = <<401, "Invalid token">>
            /\ UNCHANGED pets
       ELSE IF CallerPet(t) = NULL
       THEN /\ resp' = <<400, "Caller has no pet to add a co-owner to">>
            /\ UNCHANGED pets
       ELSE IF target = NULL
       THEN /\ resp' = <<404, "Target user not found">>
            /\ UNCHANGED pets
       ELSE IF pets[CallerPet(t)].owner2 # NULL
       THEN /\ resp' = AlreadyHasCoOwner
            /\ UNCHANGED pets
       ELSE /\ pets' = [pets EXCEPT ![CallerPet(t)].owner2 = target]
            /\ resp' = <<200, "Co-owner added successfully">>
    /\ UNCHANGED users
    /\ UNCHANGED ownRest

\* The amount the sessions of this specification ask for.
OwnAmounts == {6}

\* The tokens presented to the ownership endpoints: one that fails the
\* validation, and those of pet 1's owner, of a user with a partner and no
\* pet, and of a user with neither.
OwnTokens == {[valid |-> FALSE, uid |-> 1]}
             \cup {[valid |-> TRUE, uid |-> u] : u \in {1, 3, 4}}

\* The usernames given to /add_co_owner: two users and an unknown name.
OwnTargets == {1, 3, NULL}

\* The identities that open sessions.
OwnUsers == {1, 3}

\* The ownership endpoints, and sessions that query and mutate while the
\* ownership changes.
NextOwn ==
    \/ \E t \in OwnTokens : CreatePet(t)
    \/ \E t \in OwnTokens, target \in OwnTargets : AddCoOwner(t, target)
    \/ \E c \in Conns, u \in OwnUsers : Authenticate(c, [valid |-> TRUE, uid |-> u], TRUE)
    \/ \E c \in Conns : Register(c)
    \/ \E c \in Conns, pid \in ClientPetIds, amt \in OwnAmounts : RecvUpdate(c, pid, amt, MaxReq)
    \/ \E c \in Conns : RecvGetData(c, MaxReq)
    \/ \E c \in Conns : ResolvePet(c)
    \/ \E c \in Conns : SelectMoney(c)
    \/ \E c \in Conns : ReplyInsufficient(c)
    \/ \E c \in Conns : UpdateMoney(c)
    \/ \E c \in Conns : ReplySuccess(c)
    \/ \E c \in Conns : GetOtherOwner(c)
    \/ \E c \in Conns : PushToPeer(c)
    \/ \E c \in Conns : GetDataResolve(c)
    \/ \E c \in Conns : GetDataReply(c)

SpecOwn == InitOwn /\ [][NextOwn]_vars

\* ----------------------------------------------------------- client side
\* state.tsx: the money and the gauges the web client keeps in
\* localStorage, and the shop's buy button.

clientRest == <<users, pets, connections, pc, userID, httpStatus, closed, client,
                hb, tok, missed, msg, loc, sent, rcvd, mu, hbpc, wtgt, resp>>

\* localStorage.getItem(k) !== null
Has(k) == k \in local.has

\* localStorage.setItem(k, v.toString()) on storage l.
SetItem(l, k, v) == [l EXCEPT !.has = @ \cup {k}, !.val[k] = v]

\* The record of one more call.
Called(l, name, amount) == [l EXCEPT !.call = <<name, amount>>, !.n = @ + 1]

\* initLocalStorage: every key that is null gets its default.
Defaults == [k \in Keys |-> IF k = "money" THEN W(10) ELSE W(50)]

InitLocalStorage ==
    /\ local.n < MaxCalls
    /\ local' = Called([local EXCEPT !.has = Keys,
                                     !.val = [k \in Keys |->
                                                 IF Has(k) THEN local.val[k]
                                                 ELSE Defaults[k]]],
                       "initLocalStorage", 0)
    /\ UNCHANGED clientRest

\* spendMoney(amount) on storage l: the storage after the call.
spendMoney(l, amount) ==
    IF "money" \in l.has /\ ParseInt(l.val["money"]) >= amount
    THEN [SetItem(l, "money", ParseInt(l.val["money"]) - amount) EXCEPT !.ret = TRUE]
    ELSE [l EXCEPT !.ret = FALSE]

\* earnMoney(amount) on storage l.
earnMoney(l, amount) ==
    IF "money" \in l.has
    THEN SetItem(l, "money", ParseInt(l.val["money"]) + amount)
    ELSE SetItem(l, "money", amount)

\* addHappiness(amount) and addHunger(amount) on storage l, k the key: the
\* test adds amount, the value stored adds 1.
addOne(l, k, amount) ==
    IF k \in l.has /\ ParseInt(l.val[k]) + amount <= W(100)
    THEN SetItem(l, k, ParseInt(l.val[k]) + W(1))
    ELSE SetItem(l, k, W(100))

\* addHealth(amount) on storage l.
addHealth(l, amount) ==
    IF "health" \in l.has /\ ParseInt(l.val["health"]) + amount <= W(100)
    THEN SetItem(l, "health", ParseInt(l.val["health"]) + amount)
    ELSE SetItem(l, "health", W(100))

\* The gauge functions by the key they work on.
addGauge(l, k, amount) ==
    IF k = "health" THEN addHealth(l, amount) ELSE addOne(l, k, amount)

SpendMoney(amount) ==
    /\ local.n < MaxCalls
    /\ local' = Called(spendMoney(local, amount), "spendMoney", amount)
    /\ UNCHANGED clientRest

EarnMoney(amount) ==
    /\ local.n < MaxCalls
    /\ local' = Called(earnMoney(local, amount), "earnMoney", amount)
    /\ UNCHANGED clientRest

AddGauge(k, amount) ==
    /\ local.n < MaxCalls
    /\ local' = Called(addGauge(local, k, amount), k, amount)
    /\ UNCHANGED clientRest

\* ItemCard.handleBuy(itemCost) of an item of type k: spendMoney, and when
\* it returns true the gauge of the item's type is raised by 10.
HandleBuy(k, cost) ==
    /\ local.n < MaxCalls
    /\ LET l == spendMoney(local, cost)
       IN  local' = Called(IF l.ret THEN addGauge(l, k, W(10)) ELSE l,
                           "handleBuy", cost)
    /\ UNCHANGED clientRest

\* The amounts passed to spendMoney and earnMoney: nothing, half a coin,
\* and prices of the shop.
ClientAmounts == {0, 1, W(5), W(10)}

\* The amounts passed to the gauge functions: 1, the 10 of handleBuy, and
\* one that overshoots 100 from the default of 50.
GaugeAmounts == {W(1), W(10), W(60)}

\* The itemCost of the items of the shop.
ItemCosts == {W(5), W(10), W(15)}

Gauges == Keys \ {"money"}

NextClient ==
    \/ InitLocalStorage
    \/ \E a \in ClientAmounts : SpendMoney(a)
    \/ \E a \in ClientAmounts : EarnMoney(a)
    \/ \E k \in Gauges, a \in GaugeAmounts : AddGauge(k, a)
    \/ \E k \in Gauges, cost \in ItemCosts : HandleBuy(k, cost)

SpecClient == Init /\ [][NextClient]_vars

\* ================================================================ claims

IsReply(e) == e.kind \in {"ResultResponse", "PetDataResponse"}
IsSuccess(e) == e.kind = "ResultResponse" /\ e.status = "success"
IsPush(e) == e.kind = "push"
IsRequest(m) == m.kind # "malformed"

Replies(c) == SelectSeq(sent[c], IsReply)
Pushes(c) == SelectSeq(sent[c], IsPush)
Requests(c) == SelectSeq(rcvd[c], IsRequest)

Owners(p) == {pets[p].main_owner, pets[p].owner2} \ {NULL}

\* C1: in every reachable state, under every interleaving of the SELECT and
\* the UPDATE of concurrent mutation requests of the two owners, the stored
\* money of every pet is >= 0.
C1_BalanceNonNegative == \A p \in Pets : pets[p].money >= 0

\* Two requests of the two owners of one pet are in flight, one has
\* written its UPDATE and the other still holds the balance it read before.
C1_Witness ==
    \E c, d \in Conns :
        /\ userID[c] = 1 /\ userID[d] = 2
        /\ pc[c] = "reply_ok" /\ pc[d] = "check"
        /\ msg[c].pet_id = msg[d].pet_id
        /\ loc[d].currentMoney # pets[msg[d].pet_id].money

\* C2: when owners 1 and 2 each submit amount 6 against a stored balance of
\* 10 and nothing else is submitted, then once both are answered exactly
\* one reply is a success with new balance 4 and the other is a rejection.
C2_ExactlyOneSucceeds ==
    \A c, d \in Conns :
        ( /\ userID[c] = 1 /\ userID[d] = 2
          /\ 10 \in InitBalances
          /\ NumRead = 2
          /\ rcvd[c] = <<Decode("update", 1, 6)>>
          /\ rcvd[d] = <<Decode("update", 1, 6)>>
          /\ pc[c] = "read" /\ pc[d] = "read" )
        => \E a, b \in {c, d} :
              /\ a # b
              /\ Len(Replies(a)) = 1 /\ Len(Replies(b)) = 1
              /\ IsSuccess(Replies(a)[1]) /\ Replies(a)[1].newMoney = 4
              /\ Replies(b)[1].status = "fail"
              /\ Replies(b)[1].reason = "insufficient"

\* The handler of c has registered its connection and has not returned.
InLoop(c) == pc[c] \notin {"idle", "rejected", "upgraded", "cleanup", "done"}

\* The connection is up at both ends.
Live(c) == InLoop(c) /\ ~closed[c] /\ client[c] = "alive"

\* The registry entry of the connection's identity is this connection.
Registered(x) == userID[x] # NULL /\ connections[userID[x]] = x

\* C3: registering a connection for an identity closes the connection that
\* was registered for it before, so no identity ever has two live
\* connections.
C3_OneLiveConnection ==
    \A c, d \in Conns :
        (c # d /\ userID[c] = userID[d]) => ~(Live(c) /\ Live(d))

\* C4: the cleanup of a terminating handler removes the registry entry of
\* its identity only if that entry is its own connection, and never closes
\* or unregisters a connection other than its own.
C4_CleanupOnlyOwnEntry ==
    [][ \A c \in Conns :
          (pc[c] = "cleanup" /\ pc'[c] = "done")
          => \A x \in Conns \ {c} :
                /\ closed'[x] = closed[x]
                /\ Registered(x) => connections'[userID[x]] = x
      ]_vars

Last(q) == q[Len(q)]

\* The handler of c takes the step.
Steps(c) == pc'[c] # pc[c]

RejectPath(c) ==
    \/ pc[c] \in {"resolve", "select"}
    \/ pc[c] = "check" /\ msg[c].amount > loc[c].currentMoney

\* C6: a mutation request whose amount exceeds the stored balance leaves
\* every stored balance unchanged, is answered with a failure reply on the
\* caller's connection, and writes nothing on any other connection.
C6_RejectionLeaksNothing ==
    [][ \A c \in Conns :
          (RejectPath(c) /\ Steps(c))
          => /\ pets' = pets
             /\ \A x \in Conns \ {c} : sent'[x] = sent[x]
             /\ pc[c] = "check"
                => /\ pc'[c] = "read"
                   /\ Len(sent'[c]) = Len(sent[c]) + 1
                   /\ Last(sent'[c]).kind = "ResultResponse"
                   /\ Last(sent'[c]).status = "fail"
                   /\ Last(sent'[c]).reason = "insufficient"
      ]_vars

\* Owner 1 asked for more than the balance while owner 2 was registered:
\* the only message is the failure reply and the balance is as before.
C6_Witness ==
    \E c, x \in Conns :
        /\ userID[c] = 1 /\ userID[x] = 2 /\ Registered(x) /\ pc[c] = "read"
        /\ Len(rcvd[c]) = 1 /\ rcvd[c][1].amount > 10
        /\ Len(sent[c]) = 1 /\ sent[c][1].reason = "insufficient"
        /\ sent[x] = <<>>
        /\ pets[1].money = 10

\* C7: a registered connection whose client sends no pong for more than one
\* heartbeat period is eventually closed and unregistered by the server.
C7_SilentConnectionReaped ==
    \A c \in Conns :
        (InLoop(c) /\ Registered(c) /\ missed[c] >= MaxMissed)
        ~> (closed[c] /\ ~Registered(c))

\* C8: the pet that a request reads or changes is the one derived from the
\* caller's identity, whatever pet_id the message carries: past the
\* derivation the client's pet_id is gone from the handler's state, and a
\* step changes the money of a pet only on behalf of one of its owners.
C8_Inv ==
    \A c \in Conns :
        /\ pc[c] \in {"select", "check", "reply_ok", "reply_err", "other", "push"}
           => /\ msg[c].pet_id = PetIDFor(userID[c])
              /\ userID[c] \in Owners(msg[c].pet_id)
        /\ pc[c] = "gd_query"
           => /\ loc[c].petIDToUse = PetIDFor(userID[c])
              /\ userID[c] \in Owners(loc[c].petIDToUse)

C8_Act ==
    \A p \in Pets :
        pets'[p] # pets[p]
        => \E c \in Conns : Steps(c) /\ userID[c] \in Owners(p)

C9_NoEntryWithoutAuth ==
    /\ \A c \in Conns :
          (pc[c] # "idle" /\ ~(tok[c].valid /\ tok[c].uid # NULL))
          => /\ pc[c] = "rejected" /\ httpStatus[c] = 401
             /\ ~hb[c] /\ client[c] = "none"
             /\ rcvd[c] = <<>> /\ sent[c] = <<>>
             /\ \A u \in Users : connections[u] # c
    /\ \A u \in Users :
          connections[u] # NULL
          => /\ tok[connections[u]].valid
             /\ tok[connections[u]].uid = u
             /\ httpStatus[connections[u]] = 101

\* An attempt with a token that fails validation was rejected while another
\* connection is registered.
C9_Witness ==
    \E c, d \in Conns :
        /\ ~tok[c].valid /\ pc[c] = "rejected" /\ httpStatus[c] = 401
        /\ Registered(d)

\* A request was read on c and its reply is not written yet.
Pending(c) ==
    pc[c] \in {"resolve", "select", "check", "reply_ok", "reply_err",
               "gd_resolve", "gd_query"}

RECURSIVE SumOver(_, _)
SumOver(f, n) == IF n = 0 THEN 0 ELSE f[n] + SumOver(f, n - 1)

NumPushes == SumOver([c \in Conns |-> Len(Pushes(c))], MaxConns)
NumSuccess == SumOver([c \in Conns |-> Len(SelectSeq(sent[c], IsSuccess))], MaxConns)

\* C10: each request read on a connection gets exactly one reply on that
\* connection; there are at most as many pushes as successful mutations,
\* each push is on a connection of an owner of the pet it names; and a step
\* of a handler writes only on its own connection or, as a push, on the
\* connection registered for the other owner of the caller's pet.
C10_Inv ==
    /\ \A c \in Conns :
          Len(Replies(c)) = Len(Requests(c)) - (IF Pending(c) THEN 1 ELSE 0)
    /\ NumPushes <= NumSuccess
    /\ \A x \in Conns : \A i \in DOMAIN sent[x] :
          IsPush(sent[x][i]) => userID[x] \in Owners(sent[x][i].pet_id)

C10_Act ==
    \A x \in Conns :
        sent'[x] # sent[x]
        => /\ Len(sent'[x]) = Len(sent[x]) + 1
           /\ \E c \in Conns :
                 /\ Steps(c)
                 /\ \/ x = c /\ IsReply(Last(sent'[x]))
                    \/ /\ pc[c] = "push" /\ IsPush(Last(sent'[x]))
                       /\ x = connections[getOtherOwner(PetIDFor(userID[c]), userID[c])]

OtherOwners(c) == Owners(PetIDFor(userID[c])) \ {userID[c]}

\* No other owner of the caller's pet has a registry entry.
PeerOffline(c) == \A o \in OtherOwners(c) : connections[o] = NULL

\* C11: when the handler of a successful mutation looks up the other owner
\* and that owner has no registry entry (or the pet has no other owner), the
\* step writes nothing on any connection and changes no balance: the success
\* reply already written on the caller's connection stays the last message
\* of the mutation.  The UPDATE that made the mutation succeed stored the
\* balance the reply carries, and no step before the lookup writes on a
\* connection other than the caller's.
C11_NoPushWhenPeerOffline ==
    [][ \A c \in Conns :
          /\ (pc[c] = "push" /\ Steps(c) /\ PeerOffline(c))
             => /\ sent' = sent
                /\ pets' = pets
                /\ pc'[c] = "read"
                /\ Len(sent[c]) > 0 /\ IsSuccess(Last(sent[c]))
                /\ Last(sent[c]).newMoney = loc[c].newMoney
          /\ (pc[c] = "other" /\ Steps(c) /\ OtherOwners(c) = {})
             => sent' = sent /\ pets' = pets /\ pc'[c] = "read"
          /\ (pc[c] = "check" /\ pc'[c] = "reply_ok")
             => pets'[msg[c].pet_id].money = loc'[c].newMoney
          /\ (pc[c] \in {"resolve", "select", "check", "reply_ok", "reply_err", "other"}
              /\ Steps(c))
             => \A x \in Conns \ {c} : sent'[x] = sent[x]
      ]_vars

\* Owner 1 was answered success with balance 4 while owner 2 never
\* connected: the balance is stored and no push was written anywhere.
C11_Witness ==
    \E c \in Conns :
        /\ userID[c] = 1 /\ pc[c] = "read"
        /\ \A x \in Conns : userID[x] # 2 /\ Pushes(x) = <<>>
        /\ connections[2] = NULL
        /\ sent[c] = <<Entry("ResultResponse", "success", "none", 4, Absent, Absent, TRUE)>>
        /\ pets[1].money = 4

\* The step of c writes a failure reply for insufficient funds or for a
\* store error.
FailureReplyStep(c) ==
    \/ pc[c] = "check" /\ pc'[c] \notin {"check", "reply_ok", "reply_err"}
    \/ pc[c] = "reply_err" /\ Steps(c)

FailReasons == {"insufficient", "server_error", "no_pet"}

C13_EveryMessageAnswered ==
    \A c \in Conns :
        /\ Len(Replies(c)) = Len(rcvd[c]) - (IF Pending(c) THEN 1 ELSE 0)
        /\ \A i \in DOMAIN Replies(c) :
              Replies(c)[i].status = "fail" => Replies(c)[i].reason \in FailReasons

C13_Inv ==
    \A c \in Conns :
        /\ Len(Replies(c)) = Len(Requests(c)) - (IF Pending(c) THEN 1 ELSE 0)
        /\ \A i \in DOMAIN Replies(c) :
              /\ Replies(c)[i].status \in {"success", "fail"}
              /\ Replies(c)[i].status = "fail" <=> Replies(c)[i].reason \in FailReasons
              /\ Replies(c)[i].kind = "PetDataResponse" <=> Requests(c)[i].kind = "get_data"

C13_Act ==
    \A c \in Conns :
        /\ (Pending(c) /\ Steps(c) /\ pets' = pets /\ pc'[c] = "read")
           => /\ Len(sent'[c]) = Len(sent[c]) + 1
              /\ IsReply(Last(sent'[c]))
              /\ \/ Last(sent'[c]).status = "fail" /\ Last(sent'[c]).reason \in FailReasons
                 \/ Last(sent'[c]).kind = "PetDataResponse" /\ Last(sent'[c]).status = "success"
        /\ (Len(rcvd'[c]) > Len(rcvd[c]) /\ ~IsRequest(Last(rcvd'[c])))
           => sent' = sent /\ pc' = pc /\ pets' = pets

\* What does hold of the replies: every message that the handler can decode
\* (a state query, or anything that unmarshals as a mutation request) and
\* that is not carried out is answered, on the requester's connection, by
\* exactly one failure reply with a reason; a message that cannot be decoded
\* is dropped: nothing is written for it and the handler reads the next one.
C13_DecodedRequestsAnswered == []C13_Inv /\ [][C13_Act]_vars

\* C14: a message that is neither a state query nor a mutation request (an
\* object with an unrecognized type and without the fields of a mutation, or
\* a payload that cannot be decoded) is ignored: no step taken for it
\* changes a stored balance, writes on the connection of another identity,
\* closes a connection or makes the handler leave the read loop.
C14_UnrecognizedIgnored ==
    [][ \A c \in Conns :
          /\ (msg[c].kind = "unknown" /\ Steps(c))
             => /\ pets' = pets
                /\ \A x \in Conns \ {c} : sent'[x] = sent[x]
                /\ closed' = closed /\ pc'[c] # "cleanup"
          /\ (Len(rcvd'[c]) > Len(rcvd[c]) /\ Last(rcvd'[c]).kind = "malformed")
             => /\ pets' = pets /\ sent' = sent
                /\ closed' = closed /\ pc' = pc
      ]_vars

\* The amounts of the requests of c that were answered success, added up.
RECURSIVE SuccessAmounts(_, _)
SuccessAmounts(c, i) ==
    IF i = 0 THEN 0
    ELSE (IF IsSuccess(Replies(c)[i]) THEN Requests(c)[i].amount ELSE 0)
         + SuccessAmounts(c, i - 1)

\* The same over the connections of the owners of pet p.
SuccessSum(p) ==
    SumOver([c \in Conns |->
                IF userID[c] # NULL /\ PetIDFor(userID[c]) = p
                THEN SuccessAmounts(c, Len(Replies(c))) ELSE 0], MaxConns)

\* No handler is in the middle of a request.
Quiescent == \A c \in Conns : msg[c] = NoMsg

C15_Inv ==
    Quiescent
    => \A p \in Pets :
          \E b \in InitBalances : pets[p].money = Wrap(b - SuccessSum(p))

C15_Act ==
    \A c \in Conns :
        (pc[c] = "check" /\ pc'[c] = "reply_ok")
        => /\ loc'[c].newMoney = Wrap(pets[msg[c].pet_id].money - msg[c].amount)
           /\ pets'[msg[c].pet_id].money = loc'[c].newMoney

\* C15: the mutations of one pet are applied one after the other: the new
\* balance of a successful mutation is the balance stored immediately before
\* its write minus its amount, and once every request read is answered the
\* stored balance of each pet is its initial balance minus the sum of the
\* amounts of the requests answered success.
C15_SerializedMutations == []C15_Inv /\ [][C15_Act]_vars

\* The heartbeat goroutines that are running.
RunningHeartbeats == {c \in Conns : hb[c]}

\* The connections that were upgraded and whose handler has not returned.
NotYetClosed == {c \in Conns : pc[c] \notin {"idle", "rejected", "done"}}

\* C16: the heartbeat goroutine of a connection ends when the connection is
\* closed, so there are never more running heartbeat goroutines than
\* connections that are not yet closed.
C16_HeartbeatsBounded ==
    Cardinality(RunningHeartbeats) <= Cardinality(NotYetClosed)

\* C17: whenever a push is written on a connection, it is written by the
\* handler of a mutation whose success reply, with the new balance of that
\* mutation, is already the last message written on the caller's connection
\* and answers the last request read there; so at no time are there more
\* pushes than success replies.
C17_Act ==
    \A x \in Conns :
        Len(Pushes(x))' > Len(Pushes(x))
        => \E c \in Conns :
              /\ pc[c] = "push" /\ Steps(c)
              /\ Len(Replies(c)) = Len(Requests(c))
              /\ Len(sent[c]) > 0 /\ IsSuccess(Last(sent[c]))
              /\ Last(sent[c]).newMoney = loc[c].newMoney
              /\ sent'[c] = sent[c]

C17_ReplyBeforePush == [](NumPushes <= NumSuccess) /\ [][C17_Act]_vars

\* Owner 2 has the success reply of its mutation and nothing else, and the
\* connection of owner 1 has the push of it.
C17_Witness ==
    \E c, x \in Conns :
        /\ userID[c] = 2 /\ userID[x] = 1 /\ pc[c] = "read"
        /\ Len(sent[c]) = 1 /\ IsSuccess(sent[c][1]) /\ sent[c][1].newMoney = 4
        /\ Len(sent[x]) = 1 /\ IsPush(sent[x][1]) /\ sent[x][1].amount = 6

\* The attempt presented a token that passed validation and carries a user id.
Authenticated(c) == pc[c] # "idle" /\ TokenAccepted(tok[c])

\* C18: an attempt whose credential validation succeeded is not rejected
\* before registration: unless the upgrader refuses the handshake itself
\* (status 400), it is upgraded, and from registration on its connection
\* has been entered in the registry under the token's identity and its
\* heartbeat is started.
C18_AuthenticatedBecomesActive ==
    \A c \in Conns :
        Authenticated(c)
        => /\ pc[c] = "rejected" => httpStatus[c] = 400
           /\ pc[c] # "rejected" => httpStatus[c] = 101 /\ userID[c] = tok[c].uid
           /\ pc[c] \notin {"rejected", "upgraded"} => hb[c]

\* C19: an authenticated identity for which no pet can be derived is not
\* turned away for that: unless the upgrader refuses the handshake itself
\* (status 400) its attempt is upgraded, and every reply written on its
\* connection is a failure reply that says the caller has no pet.
C19_NoPetIdentityServed ==
    \A c \in Conns :
        (Authenticated(c) /\ PetIDFor(tok[c].uid) = NULL)
        => /\ pc[c] = "rejected" => httpStatus[c] = 400
           /\ \A i \in DOMAIN sent[c] :
                 sent[c][i].status = "fail" /\ sent[c][i].reason = "no_pet"

\* The handler of c is processing a state query.
InQuery(c) == pc[c] \in {"gd_resolve", "gd_query"}

\* C20: no step of the processing of a state query changes a table, the
\* registry, or the state of any connection, or writes on a connection
\* other than the caller's; the query ends with exactly one result on the
\* caller's connection, either the snapshot (the stored balance at that
\* moment) of the pet derived from the caller's identity or a failure
\* result, and the handler is back at the head of the read loop.
C20_QueryReadOnly ==
    [][ \A c \in Conns :
          (InQuery(c) /\ Steps(c))
          => /\ pets' = pets /\ users' = users
             /\ connections' = connections
             /\ closed' = closed /\ client' = client /\ hb' = hb
             /\ \A x \in Conns \ {c} : sent'[x] = sent[x]
             /\ pc'[c] \in {"gd_query", "read"}
             /\ pc[c] = "gd_query"
                => /\ pc'[c] = "read"
                   /\ Len(sent'[c]) = Len(sent[c]) + 1
                   /\ Last(sent'[c]).kind = "PetDataResponse"
                   /\ \/ /\ Last(sent'[c]).status = "success"
                         /\ Last(sent'[c]).pet_id = PetIDFor(userID[c])
                         /\ Last(sent'[c]).newMoney = pets[PetIDFor(userID[c])].money
                      \/ /\ Last(sent'[c]).status = "fail"
                         /\ Last(sent'[c]).reason \in FailReasons
      ]_vars

\* Owner 2 asked for the state and has the snapshot of pet 1 on its
\* connection, which is still up and registered; nothing is changed.
C20_Witness ==
    \E c \in Conns :
        /\ userID[c] = 2 /\ pc[c] = "read" /\ Live(c) /\ Registered(c)
        /\ rcvd[c] = <<Decode("get_data", NULL, 0)>>
        /\ sent[c] = <<Entry("PetDataResponse", "success", "none", 10, 1, Absent, TRUE)>>
        /\ pets[1].money = 10 /\ pets[1].owner2 = 2

\* C21: a call of validateAndUpdatePetMoney on a pet with stored balance b
\* and amount a is applied, storing b - a and returning it as the new
\* balance, exactly when b - a >= 0; otherwise it is rejected as
\* insufficient funds and the stored balance stays b.
C21_AppliedIffNonNegative ==
    [][ \A c \in Conns :
          (pc[c] = "check" /\ Steps(c))
          => LET p == msg[c].pet_id
                 b == pets[p].money
                 a == msg[c].amount
             IN  IF b - a >= 0
                 THEN /\ pc'[c] = "reply_ok"
                      /\ pets'[p].money = b - a
                      /\ loc'[c].newMoney = b - a
                 ELSE /\ pc'[c] = "read"
                      /\ pets' = pets
                      /\ Last(sent'[c]).reason = "insufficient"
      ]_vars

\* C22: a connection whose handler has returned is closed, and a closed
\* connection (closed by its handler's cleanup, by the cleanup of another
\* handler of the same identity, or by a heartbeat whose ping could not be
\* written) has no registry entry that refers to it.
C22_ClosedIsUnregistered ==
    \A c \in Conns :
        /\ pc[c] = "done" => closed[c]
        /\ closed[c] => \A u \in Users : connections[u] # c

\* A connection whose remote end went away was closed and unregistered by
\* the heartbeat before its handler noticed, and the handler of another
\* connection has returned after a read error.
C22_Witness ==
    \E c, d \in Conns :
        /\ pc[c] = "read" /\ closed[c] /\ client[c] = "gone"
        /\ userID[c] # userID[d] /\ connections[userID[c]] = NULL
        /\ pc[d] = "done" /\ closed[d] /\ connections[userID[d]] = NULL

\* The goroutines that are inside a registry operation: between taking
\* connectionsMu for it and giving it back.
InRegistryOp ==
    {H(c) : c \in {d \in Conns : pc[d] \in {"reg_in", "push_in", "push_write", "clean_in"}}}
    \cup {B(c) : c \in {d \in Conns : hbpc[d] \in {"ping_in", "ping_write"}}}

\* C23: at no time is more than one goroutine inside a registry operation
\* (register, cleanup, lookup for a push, lookup of the heartbeat), each
\* goroutine inside one holds connectionsMu, and the registry changes only
\* in a step of the goroutine that holds it.
C23_Inv ==
    /\ Cardinality(InRegistryOp) <= 1
    /\ InRegistryOp = mu

C23_Act ==
    connections' # connections
    => \E u \in mu : u \notin mu'

C23_RegistryExclusive == []C23_Inv /\ [][C23_Act]_vars

\* The heartbeat of one connection is inside its lookup while a handler
\* waits to register and another waits to look up the peer of its push.
C23_Witness ==
    \E b, c, d \in Conns :
        /\ hbpc[b] = "ping_in" /\ mu = {B(b)}
        /\ pc[c] = "upgraded" /\ pc[d] = "push"

\* The goroutines that are in the middle of a write on connection x.
Writers(x) == {u \in Units : wtgt[u] = x}

\* C24: no goroutine is in the middle of a write on a connection while it
\* holds connectionsMu, so a write that blocks keeps no other goroutine
\* from registering, unregistering or looking up.
C24_NoWriteUnderLock ==
    \A u \in Units : wtgt[u] # NULL => u \notin mu

\* C25: the pet_id of every push is the pet id the server derived from the
\* caller's identity, whatever pet_id the caller's request carried; no push
\* on any connection names another pet.
C25_Act ==
    \A x \in Conns :
        Len(Pushes(x))' > Len(Pushes(x))
        => \E c \in Conns :
              /\ pc[c] = "push" /\ Steps(c)
              /\ Last(sent'[x]).pet_id = PetIDFor(userID[c])
              /\ Last(sent'[x]).pet_id = users[userID[c]].pet_id

C25_Inv ==
    \A x \in Conns : \A i \in DOMAIN sent[x] :
        IsPush(sent[x][i])
        => \E c \in Conns \ {x} :
              /\ userID[c] # NULL
              /\ sent[x][i].pet_id = PetIDFor(userID[c])
              /\ userID[x] = getOtherOwner(PetIDFor(userID[c]), userID[c])

C25_PushCarriesResolvedPet == []C25_Inv /\ [][C25_Act]_vars

\* Owner 2 sent a mutation that names pet 2; the push on the connection of
\* owner 1 names pet 1, and pet 2 is untouched.
C25_Witness ==
    \E c, x \in Conns :
        /\ userID[c] = 2 /\ userID[x] = 1 /\ pc[c] = "read"
        /\ rcvd[c] = <<Decode("update", 2, 6)>>
        /\ Len(Pushes(x)) = 1 /\ Pushes(x)[1].pet_id = 1
        /\ pets[2].money = 10

\* The step leaves connection x as it is: not closed, not unregistered, and
\* nothing written on it.
Untouched(x) ==
    /\ closed'[x] = closed[x]
    /\ Registered(x) => connections'[userID[x]] = x
    /\ sent'[x] = sent[x]

\* The step is the cleanup of handler c after its read failed.
CleanupStep(c) == pc[c] = "cleanup" /\ pc'[c] = "done"

\* The step is a push of handler c whose write on the peer's connection fails.
FailedPushStep(c) ==
    /\ pc[c] = "push" /\ Steps(c)
    /\ connections[loc[c].other] # NULL
    /\ ~WriteOK(connections[loc[c].other])

\* C26: a transport failure on a connection of one identity is not passed
\* on to another identity: the cleanup of the handler whose read failed, and
\* a heartbeat that closes a connection whose ping could not be written,
\* leave every connection of every other identity open, registered and
\* without a new message; and a push whose write fails closes and
\* unregisters nothing, writes on no other connection, and the handler that
\* made it goes on reading.
C26_PeerIsolated ==
    [][ \A c \in Conns :
          /\ CleanupStep(c)
             => \A x \in Conns : userID[x] # userID[c] => Untouched(x)
          /\ (closed'[c] /\ ~closed[c])
             => \A x \in Conns : userID[x] # userID[c] => Untouched(x)
          /\ FailedPushStep(c)
             => /\ closed' = closed /\ connections' = connections
                /\ pc'[c] = "read"
                /\ \A x \in Conns \ {connections[loc[c].other]} : sent'[x] = sent[x]
      ]_vars

\* The push of owner 1's mutation could not be written on the connection of
\* owner 2, whose remote end is gone: owner 1's handler is reading again on
\* an open and registered connection, and the connection of owner 2 is
\* still registered and not closed by that.
C26_Witness ==
    \E c, x \in Conns :
        /\ userID[c] = 1 /\ userID[x] = 2
        /\ pc[c] = "read" /\ Live(c) /\ Registered(c)
        /\ Len(sent[c]) = 1 /\ IsSuccess(sent[c][1])
        /\ Len(sent[x]) = 1 /\ IsPush(sent[x][1]) /\ ~sent[x][1].ok
        /\ client[x] = "gone" /\ ~closed[x] /\ Registered(x)

\* An /add_co_owner call that gets as far as the UPDATE on a pet whose
\* owner2 is already set.
AddOnOwnedPet(t, target) ==
    /\ TokenAccepted(t)
    /\ users[t.uid].pet_id # NULL
    /\ target # NULL
    /\ pets[users[t.uid].pet_id].owner2 # NULL

\* The identities the hub lets operate on pet p.
Operators(p) == {u \in Users : PetIDFor(u) = p}

\* C27 (state part): a pet never has more than two owners, and every
\* identity the hub resolves to a pet is one of its owners.
C27_Inv ==
    \A p \in Pets : /\ Cardinality(Owners(p)) <= 2
                    /\ Operators(p) \subseteq Owners(p)

\* C27 (step part): an owner2 that is set is never changed, a main_owner
\* that is set is never changed, and /add_co_owner on a pet that already
\* has an owner2 is answered 400 and leaves the table as it is.
C27_Act ==
    /\ \A p \in Pets :
          /\ pets[p].owner2 # NULL => pets'[p].owner2 = pets[p].owner2
          /\ pets[p].main_owner # NULL => pets'[p].main_owner = pets[p].main_owner
    /\ \A t \in Tokens, target \in Users :
          AddOnOwnedPet(t, target) /\ AddCoOwner(t, target)
             => resp' = AlreadyHasCoOwner /\ pets' = pets /\ users' = users

\* C27: the secondary owner of a pet is set at most once: /add_co_owner on
\* a pet that has one is refused and changes no owner, owner2 only ever
\* goes from absent to one fixed identity, and no pet has more than two
\* owners.
C27_OwnerSetOnce == []C27_Inv /\ [][C27_Act]_vars

\* C27 witness: /add_co_owner has just been refused for lack of a free
\* owner2, and the only pet a caller could have named is pet 2, which an
\* earlier /add_co_owner gave its owner2.
C27_Witness ==
    /\ resp = AlreadyHasCoOwner
    /\ pets[2].owner2 # NULL
    /\ \A t \in OwnTokens : TokenAccepted(t) => users[t.uid].pet_id \in {NULL, 2}

\* Identity u is the main_owner of one pet and the owner2 of another.
Both(u) ==
    \E p, q \in Pets : p # q /\ pets[p].main_owner = u /\ pets[q].owner2 = u

\* C28: when an identity is both the primary owner of one pet and the
\* secondary owner of another, the resolution of the pet for a state query
\* or a mutation from it ends the request with the store-error reply, so
\* no pet is picked and no balance is changed.
C28_BothOwnerIsStoreError ==
    [][\A c \in Conns :
          (pc[c] \in {"resolve", "gd_resolve"} /\ Steps(c) /\ Both(userID[c]))
             => /\ pc'[c] = "read"
                /\ Len(sent'[c]) = Len(sent[c]) + 1
                /\ Last(sent'[c]).status = "fail"
                /\ Last(sent'[c]).reason = "server_error"
                /\ pets' = pets]_vars

\* C29: at no time are two goroutines in the middle of a write on the same
\* connection: the reply of the connection's own handler, a push of the
\* peer's handler and a ping of a heartbeat never overlap.
C29_SingleWriter == \A x \in Conns : Cardinality(Writers(x)) <= 1

\* The sendPingMessages goroutines that run for identity u.
HeartbeatsOf(u) == {c \in Conns : hb[c] /\ userID[c] = u}

\* C30: for each identity at most one heartbeat goroutine is running at
\* any time, so its registered connection is pinged at most once per
\* heartbeat period.
C30_OneHeartbeatPerIdentity == \A u \in Users : Cardinality(HeartbeatsOf(u)) <= 1

\* C31: every connection held in the registry is one the server has not
\* closed: no entry names a connection that a cleanup or a failed ping has
\* closed.
C31_RegisteredIsOpen ==
    \A u \in Users : connections[u] # NULL => ~closed[connections[u]]

\* C31 witness: a registered connection was closed by the server while its
\* handler is still in the read loop, and its identity has no entry left.
C31_Witness ==
    \E c \in Conns : /\ closed[c]
                     /\ pc[c] = "read"
                     /\ hb[c]
                     /\ connections[userID[c]] = NULL

\* C32: the two owners of a pet are distinct identities: /add_co_owner
\* never sets the owner2 of a pet to its main_owner, so the other owner a
\* push goes to is never the requester.
C32_OwnersDistinct ==
    \A p \in Pets : pets[p].main_owner # NULL => pets[p].owner2 # pets[p].main_owner

\* The pets identity u is the main_owner or the owner2 of.
PetsOf(u) == {p \in Pets : u \in Owners(p)}

\* C33: after any sequence of /create_pet and /add_co_owner calls every
\* identity is an owner, primary or secondary, of at most one pet.
C33_OnePetPerIdentity == \A u \in Users : Cardinality(PetsOf(u)) <= 1

\* A step of handler c on the path of a mutation that succeeds: the UPDATE
\* that goes through, the success reply, the lookup of the other owner and
\* the push.
SuccessStep(c) ==
    /\ Steps(c)
    /\ \/ pc[c] = "check" /\ pc'[c] = "reply_ok"
       \/ pc[c] \in {"reply_ok", "other", "push"}

\* C34: a successful mutation changes only the balance of the resolved
\* pet: its gauges and owners, every field of every other pet, the users
\* and the registry are unchanged.
C34_OnlyBalanceChanges ==
    [][\A c \in Conns :
          SuccessStep(c)
             => /\ \A p \in Pets :
                      IF p = msg[c].pet_id
                      THEN [pets'[p] EXCEPT !.money = pets[p].money] = pets[p]
                      ELSE pets'[p] = pets[p]
                /\ users' = users
                /\ connections' = connections]_vars

\* C34 witness: a mutation of 6 on pet 1 has succeeded and run to the end
\* of its iteration while the other owner was registered.
C34_Witness ==
    \E c, d \in Conns :
        /\ pc[c] = "read" /\ userID[c] = 1
        /\ Len(sent[c]) = 1 /\ IsSuccess(sent[c][1])
        /\ pets[1].money = 4
        /\ connections[2] = d /\ Len(Pushes(d)) = 1

Money == local.val["money"]

\* What the statement asks of a step that is the call spendMoney(a).
SpendAsStated(a) ==
    IF Has("money") /\ Money >= a
    THEN local'.ret /\ local'.val["money"] = Money - a
    ELSE ~local'.ret /\ local'.val = local.val /\ local'.has = local.has

\* A number without a fractional part.
IsWhole(v) == v % Scale = 0

C36_Inv == Has("money") => Money >= 0

C36_Act == \A a \in ClientAmounts : SpendMoney(a) => SpendAsStated(a)

C36_SpendExactWhole ==
    [][\A a \in ClientAmounts :
          (SpendMoney(a) /\ IsWhole(a) /\ (Has("money") => IsWhole(Money)))
             => SpendAsStated(a)]_vars

C37_Inv == \A k \in Gauges : Has(k) => local.val[k] <= W(100)

C37_Act ==
    \A k \in Gauges, a \in GaugeAmounts :
        (AddGauge(k, a) /\ Has(k))
           => local'.val[k] = IF local.val[k] + a <= W(100)
                              THEN local.val[k] + a
                              ELSE W(100)

\* C37: addHappiness(amount), addHunger(amount) and addHealth(amount) each
\* raise their gauge by exactly amount when the result is at most 100 and
\* otherwise set it to 100, so a gauge never exceeds 100.
C37_GaugeRaisedByAmount == []C37_Inv /\ [][C37_Act]_vars
====
